---- MODULE Spec2Model ----
(***************************************************************************)
(* Model of the analytics question-answering core of the Award Nomination  *)
(* backend: the SQL safety guard (agents/sql_agent.py), the AskAgent       *)
(* pipeline (agents/ask_agent.py), the export client                       *)
(* (agents/mcp_export_client.py) and the tool dispatcher                   *)
(* (agents/tools/registry.py).                                             *)
(*                                                                         *)
(* Text is a sequence of one-character strings, so that lower(), strip(),  *)
(* startswith() and the substring test (kw in text) are computed as Python *)
(* computes them.                                                          *)
(***************************************************************************)
EXTENDS Integers, Sequences, FiniteSets, TLC

VARIABLES
    query_text,     \* guard: the text handed to _is_safe
    verdict,        \* guard: "unset", or "Allowed" / "Rejected" as _is_safe returned
    generated       \* guard: Unset, or what generate_sql made of the text

guard_vars == <<query_text, verdict, generated>>

VARIABLES
    self_client,    \* AskAgent._client: None or the client
    sql_client,     \* sql_agent._client, the module-level lazy singleton
    pc,             \* where the current ask call stands
    question,       \* ask's argument
    export_format,  \* local of ask: what detect_export_format returned
    sql,            \* local of _build_context
    rows,           \* local of _build_context / ask: len(rows)
    used_rag,       \* fourth component of what _build_context returns
    answer,         \* local of ask: what _call_llm returned
    result,         \* the AskResult ask returned (meaningful when pc = "returned")
    log,            \* the collaborator calls made, in order: [op, arg] records
    tool_requests,  \* how many completions of this call carried tool-call requests
    fault,          \* None, or str(e) of the exception that reached ask's except clause
    ncalls          \* how many ask calls were started

VARIABLES
    tool_results    \* what dispatch returned, one entry per invocation

VARIABLES
    noms,           \* the Nominations table: the sequence of its rows
    payroll,        \* the payroll extract files written: the NominationId of each
    emails,         \* the notification emails sent: [nid, kind] records
    audit,          \* the Impersonation_AuditLog table: the sequence of its entries
    last,           \* what the request handled last was and did
    nreq            \* how many requests were handled

nom_vars == <<noms, payroll, emails, audit, last, nreq>>

ask_vars == <<self_client, sql_client, pc, question, export_format, sql, rows,
              used_rag, answer, result, log, tool_requests, fault, ncalls>>

\* Python's None where a text may stand: a one-element sequence that no text
\* equals, since the elements of a text are single characters.
None == <<"None">>
\* A result that has not been computed yet.
Unset == <<"unset">>

(***************************************************************************)
(* Bounds                                                                  *)
(***************************************************************************)
\* A text is the concatenation of at most MaxFragments fragments.
MaxFragments == 3
\* sqlhelper.run_query returns at most MaxRows rows.
MaxRows == 2
\* An export file has at most MaxFileSize bytes.
MaxFileSize == 2
\* At most MaxCalls ask calls are made on one AskAgent.
MaxCalls == 2
\* At most MaxDispatches tool calls are dispatched.
MaxDispatches == 1
\* The Nominations table holds at most MaxNominations rows.
MaxNominations == 1
\* At most MaxRequests requests are sent to the nomination endpoints.
MaxRequests == 3

(***************************************************************************)
(* Characters and str methods                                              *)
(***************************************************************************)
UpperCase == <<"A","B","C","D","E","F","G","H","I","J","K","L","M",
               "N","O","P","Q","R","S","T","U","V","W","X","Y","Z">>
LowerCase == <<"a","b","c","d","e","f","g","h","i","j","k","l","m",
               "n","o","p","q","r","s","t","u","v","w","x","y","z">>

Whitespace == {" ", "\n", "\t"}

lower_char(c) ==
    IF \E i \in 1..26 : UpperCase[i] = c
    THEN LowerCase[CHOOSE i \in 1..26 : UpperCase[i] = c]
    ELSE c

upper_char(c) ==
    IF \E i \in 1..26 : LowerCase[i] = c
    THEN UpperCase[CHOOSE i \in 1..26 : LowerCase[i] = c]
    ELSE c

\* str.lower() / str.upper()
lower(s) == [i \in 1..Len(s) |-> lower_char(s[i])]
upper(s) == [i \in 1..Len(s) |-> upper_char(s[i])]

\* str.strip(): drop leading and trailing whitespace.
strip(s) ==
    LET keep == {i \in 1..Len(s) : s[i] \notin Whitespace}
    IN  IF keep = {} THEN <<>>
        ELSE LET lo == CHOOSE i \in keep : \A j \in keep : i <= j
                 hi == CHOOSE i \in keep : \A j \in keep : i >= j
             IN  SubSeq(s, lo, hi)

\* str.startswith(p) / str.endswith(p)
startswith(s, p) == Len(p) <= Len(s) /\ SubSeq(s, 1, Len(p)) = p
endswith(s, p) == Len(p) <= Len(s) /\ SubSeq(s, Len(s) - Len(p) + 1, Len(s)) = p

\* Python's (kw in s) for strings: kw occurs as a contiguous substring.
contains(s, kw) ==
    \E i \in 1..(Len(s) - Len(kw) + 1) : SubSeq(s, i, i + Len(kw) - 1) = kw

\* str.removeprefix(p) / str.removesuffix(p)
removeprefix(s, p) == IF startswith(s, p) THEN SubSeq(s, Len(p) + 1, Len(s)) ELSE s
removesuffix(s, p) == IF endswith(s, p) THEN SubSeq(s, 1, Len(s) - Len(p)) ELSE s

(***************************************************************************)
(* Words                                                                   *)
(***************************************************************************)
w_select      == <<"s","e","l","e","c","t">>
w_unsupported == <<"u","n","s","u","p","p","o","r","t","e","d">>
w_insert      == <<"i","n","s","e","r","t">>
w_update      == <<"u","p","d","a","t","e">>
w_delete      == <<"d","e","l","e","t","e">>
w_drop        == <<"d","r","o","p">>
w_alter       == <<"a","l","t","e","r">>
w_exec        == <<"e","x","e","c">>
w_execute     == <<"e","x","e","c","u","t","e">>
w_truncate    == <<"t","r","u","n","c","a","t","e">>
w_merge       == <<"m","e","r","g","e">>
\* The backquote character of a markdown fence.
BACKQUOTE     == "bq"
fence         == <<BACKQUOTE, BACKQUOTE, BACKQUOTE>>
fence_sql     == fence \o <<"s","q","l">>
SENTINEL      == <<"U","N","S","U","P","P","O","R","T","E","D">>

(***************************************************************************)
(* agents/sql_agent.py                                                     *)
(***************************************************************************)
_SAFETY_KEYWORDS ==
    {w_insert, w_update, w_delete, w_drop, w_alter, w_exec, w_execute,
     w_truncate, w_merge}

\* A guard that forgets one keyword of the tuple.
_is_safe_forgets_merge(text) ==
    LET lowered == strip(lower(text))
    IN  IF ~startswith(lowered, w_select) /\ lowered # w_unsupported
        THEN FALSE
        ELSE ~ \E kw \in (_SAFETY_KEYWORDS \ {w_merge}) : contains(lowered, kw)

\* A guard that scans the text without case-normalizing it.
_is_safe_case_sensitive(text) ==
    LET lowered == strip(text)
    IN  IF ~startswith(lowered, w_select) /\ lowered # w_unsupported
        THEN FALSE
        ELSE ~ \E kw \in _SAFETY_KEYWORDS : contains(lowered, kw)

_is_safe(text) ==
    LET lowered == strip(lower(text))
    IN  IF ~startswith(lowered, w_select) /\ lowered # w_unsupported
        THEN FALSE
        ELSE ~ \E kw \in _SAFETY_KEYWORDS : contains(lowered, kw)

\* The guard's answer as the two outcomes of its contract.
validate(text) == IF _is_safe(text) THEN "Allowed" ELSE "Rejected"

\* generate_sql, lines 103-106: strip the content and drop markdown fences.
strip_fences(content) ==
    LET raw0 == strip(content)
    IN  strip(removesuffix(removeprefix(removeprefix(raw0, fence_sql), fence), fence))

\* A post-processing that does not call the guard.
sql_of_completion_unguarded(content) ==
    LET raw == strip_fences(content)
    IN  IF upper(raw) = SENTINEL THEN None
        ELSE raw

\* A post-processing that leaves the sentinel to the guard.
sql_of_completion_keeps_sentinel(content) ==
    LET raw == strip_fences(content)
    IN  IF ~_is_safe(raw) THEN None
        ELSE raw

\* The part of generate_sql after the completion returned content:
\* strip, drop markdown fences, map the sentinel and unsafe text to None.
sql_of_completion(content) ==
    LET raw == strip_fences(content)
    IN  IF upper(raw) = SENTINEL THEN None
        ELSE IF ~_is_safe(raw) THEN None
        ELSE raw

(***************************************************************************)
(* Input texts                                                             *)
(***************************************************************************)
Fragments ==
    { <<"S","E","L","E","C","T"," ">>,
      w_select,
      <<" ">>,
      <<"x">>,
      <<"I","N","S","E","R","T">>,
      <<"U","p","d","a","t","e">>,
      w_delete,
      <<"D","R","O","P">>,
      w_alter,
      <<"E","X","E","C","U","T","E">>,
      <<"T","r","u","n","c","a","t","e">>,
      w_merge,
      SENTINEL,
      fence_sql,
      fence }

RECURSIVE TextsOf(_)
TextsOf(n) ==
    IF n = 0 THEN {<<>>}
    ELSE LET shorter == TextsOf(n - 1)
         IN  shorter \cup {t \o f : t \in shorter, f \in Fragments}

Texts == TextsOf(MaxFragments)

(***************************************************************************)
(* agents/mcp_export_client.py                                             *)
(***************************************************************************)
f_excel == <<"e","x","c","e","l">>
f_pdf   == <<"p","d","f">>
f_csv   == <<"c","s","v">>

ExcelWords ==
    { f_excel,
      <<"s","p","r","e","a","d","s","h","e","e","t">>,
      <<"x","l","s","x">>,
      <<"w","o","r","k","b","o","o","k">> }
PdfWords ==
    { f_pdf,
      <<"r","e","p","o","r","t">>,
      <<"d","o","c","u","m","e","n","t">> }
CsvWords ==
    { f_csv,
      <<"c","o","m","m","a"," ","s","e","p","a","r","a","t","e","d">>,
      <<"c","o","m","m","a","-","s","e","p","a","r","a","t","e","d">>,
      <<"d","o","w","n","l","o","a","d"," ","d","a","t","a">> }

detect_export_format(q0) ==
    LET q == lower(q0)
    IN  IF \E w \in ExcelWords : contains(q, w) THEN f_excel
        ELSE IF \E w \in PdfWords : contains(q, w) THEN f_pdf
        ELSE IF \E w \in CsvWords : contains(q, w) THEN f_csv
        ELSE None

\* _FORMAT_TO_TOOL.get(format.lower())
_FORMAT_TO_TOOL(format) ==
    LET f == lower(format)
    IN  IF f = f_excel \/ f = <<"x","l","s","x">> THEN "export_to_excel"
        ELSE IF f = f_pdf THEN "export_to_pdf"
        ELSE IF f = f_csv THEN "export_to_csv"
        ELSE "None"

\* What the export server may answer to session.call_tool: a success
\* payload, an error payload, or a failure of the call itself.
DownloadUrl == <<"https://blob/export?sas">>
McpOutcomes ==
    {[raised |-> FALSE, status |-> "success", download_url |-> DownloadUrl,
      file_size_bytes |-> n] : n \in 1..MaxFileSize}
    \cup {[raised |-> FALSE, status |-> "error", download_url |-> None, file_size_bytes |-> 0],
          [raised |-> TRUE, status |-> "error", download_url |-> None, file_size_bytes |-> 0]}

ExportError ==
    [status |-> "error", download_url |-> None, file_size_bytes |-> 0, called |-> FALSE]

\* export_analytics(format, question, answer, rows): nrows is len(rows), mcp
\* is what the server does if it is called.  called tells whether the
\* server was spawned.
export_analytics(format, nrows, mcp) ==
    LET tool_name == _FORMAT_TO_TOOL(format)
    IN  IF tool_name = "None" THEN ExportError
        ELSE IF tool_name = "export_to_csv" /\ nrows = 0 THEN ExportError
        ELSE IF mcp.raised THEN [ExportError EXCEPT !.called = TRUE]
        ELSE [status |-> mcp.status, download_url |-> mcp.download_url,
              file_size_bytes |-> mcp.file_size_bytes, called |-> TRUE]

(***************************************************************************)
(* agents/ask_agent.py                                                     *)
(***************************************************************************)
Client == <<"client">>

\* A collaborator call as it is entered in log.
Call(op) == [op |-> op, arg |-> None]
RunQueryCall(text) == [op |-> "run_query", arg |-> text]
\* sqlhelper.run_query(text) as ask awaits it: ok tells whether it
\* returned, n is the number of rows it returned.
QueryCall(text, ok, n) == [op |-> "run_query", arg |-> text, ok |-> ok, n |-> n]
\* export_analytics as ask awaits it, with the answer it is given.
ExportCall(a) == [op |-> "export", arg |-> a]
\* A completion that returned, with the content of its message.
Reply(op, content) == [op |-> op, arg |-> content]
\* session.call_tool, with what the export server answered.
McpCall(mcp) ==
    [op |-> "mcp_call",
     arg |-> IF mcp.raised THEN <<"raised">> ELSE <<mcp.status>>,
     size |-> mcp.file_size_bytes]

\* str(e) of the exceptions the collaborators raise.
E_client   == <<"client construction failed">>
E_upstream == <<"upstream completion failed">>
E_noattr   == <<"'NoneType' object has no attribute 'strip'">>
E_empty    == <<"LLM returned an empty response">>
E_db       == <<"database error">>
E_query    == <<"query failed">>

AskResult(q, a, s, n, rag, fmt, path, size, err) ==
    [question |-> q, answer |-> a, sql |-> s, rows_fetched |-> n, used_rag |-> rag,
     export_format |-> fmt, export_path |-> path, export_size |-> size, error |-> err]

\* The number of sqlhelper calls _build_full_context makes.
NumFetches == 6

\* What a chat completion may do: fail, or return a message whose content
\* is None or a text, with or without tool-call requests (which ask never
\* reads).
Completions(contents) ==
    {[raised |-> TRUE, content |-> None, tool_calls |-> FALSE]}
    \cup [raised : {FALSE}, content : contents \cup {None}, tool_calls : BOOLEAN]

Questions ==
    { <<"h","o","w"," ","m","a","n","y">>,
      <<"E","x","c","e","l"," ","p","l","e","a","s","e">>,
      <<"c","s","v"," ","R","e","p","o","r","t">>,
      <<"a","s"," ","C","S","V">> }

SqlContents ==
    { <<"S","E","L","E","C","T"," ","x">>,
      fence_sql \o <<"\n","S","E","L","E","C","T"," ","x","\n">> \o fence,
      SENTINEL,
      <<"D","R","O","P"," ","T","A","B","L","E"," ","U","s","e","r","s">>,
      <<"s","e","l","e","c","t"," ","x",";","D","r","o","p"," ","x">> }

AnswerContents ==
    { <<"4","2">>, <<" ","4","2","\n">>, <<>>, <<" ","\n">> }

AskInit ==
    /\ self_client \in {None, Client}
    /\ sql_client = None
    /\ pc = "idle"
    /\ question = <<>>
    /\ export_format = None
    /\ sql = None
    /\ rows = 0
    /\ used_rag = FALSE
    /\ answer = <<>>
    /\ result = AskResult(<<>>, <<>>, None, 0, FALSE, None, None, 0, None)
    /\ log = <<>>
    /\ tool_requests = 0
    /\ fault = None
    /\ ncalls = 0

\* An except clause that logs and re-raises.
ask_except_reraises(e) ==
    /\ pc' = "raised"
    /\ UNCHANGED result

\* An except clause that starts the pipeline again.
ask_except_retries(e) ==
    /\ pc' = "generate_sql"
    /\ UNCHANGED result

\* An except clause that reports what the try block had got so far.
ask_except_keeps_locals(e) ==
    /\ result' = AskResult(question, answer, sql, rows, used_rag, export_format,
                           None, 0, e)
    /\ pc' = "returned"

\* ask, lines 155-161: the except clause.
ask_except(e) ==
    /\ result' = AskResult(question, <<>>, None, 0, FALSE, None, None, 0, e)
    /\ pc' = "returned"

\* An exception e leaves the try block of ask.
AskFailed(e) ==
    /\ fault' = e
    /\ ask_except(e)

\* A return that leaves rows_fetched at its default.
AskSucceeded_forgets_rows(a, s, n, rag, path, size) ==
    /\ result' = AskResult(question, a, s, 0, rag, export_format, path, size, None)
    /\ pc' = "returned"
    /\ UNCHANGED fault

\* A return that numbers the rows across the calls made on the agent.
AskSucceeded_counts_across_calls(a, s, n, rag, path, size) ==
    /\ result' = AskResult(question, a, s, n + (ncalls - 1), rag, export_format,
                           path, size, None)
    /\ pc' = "returned"
    /\ UNCHANGED fault

\* ask, lines 144-153: the return of the try block.
AskSucceeded(a, s, n, rag, path, size) ==
    /\ result' = AskResult(question, a, s, n, rag, export_format, path, size, None)
    /\ pc' = "returned"
    /\ UNCHANGED fault

\* A call that starts by discarding the agent's cached client.
Ask_fresh_client(q) ==
    /\ pc \in {"idle", "returned"}
    /\ ncalls < MaxCalls
    /\ ncalls' = ncalls + 1
    /\ question' = q
    /\ pc' = "get_client"
    /\ export_format' = None
    /\ sql' = None
    /\ rows' = 0
    /\ used_rag' = FALSE
    /\ answer' = <<>>
    /\ result' = AskResult(<<>>, <<>>, None, 0, FALSE, None, None, 0, None)
    /\ log' = <<>>
    /\ tool_requests' = 0
    /\ fault' = None
    /\ self_client' = None
    /\ UNCHANGED sql_client

\* A caller awaits agent.ask(q).
Ask(q) ==
    /\ pc \in {"idle", "returned"}
    /\ ncalls < MaxCalls
    /\ ncalls' = ncalls + 1
    /\ question' = q
    /\ pc' = "get_client"
    /\ export_format' = None
    /\ sql' = None
    /\ rows' = 0
    /\ used_rag' = FALSE
    /\ answer' = <<>>
    /\ result' = AskResult(<<>>, <<>>, None, 0, FALSE, None, None, 0, None)
    /\ log' = <<>>
    /\ tool_requests' = 0
    /\ fault' = None
    /\ UNCHANGED <<self_client, sql_client>>

\* ask, lines 109-114: self._get_client(), then detect_export_format.
AskGetClient ==
    /\ pc = "get_client"
    /\ \/ /\ self_client' = Client
          /\ export_format' = detect_export_format(question)
          /\ pc' = "generate_sql"
          /\ UNCHANGED <<result, fault>>
       \/ /\ self_client = None
          /\ AskFailed(E_client)
          /\ UNCHANGED <<self_client, export_format>>
    /\ UNCHANGED <<sql_client, question, sql, rows, used_rag, answer, log,
                   tool_requests, ncalls>>

\* A branch that asks for the SQL again when none came back.
after_generate_sql_retries(s) ==
    IF s # None /\ s # <<>> THEN "run_query" ELSE "generate_sql"

\* A branch that goes to the answer without building a context when no
\* SQL came back.
after_generate_sql_skips_context(s) ==
    IF s # None /\ s # <<>> THEN "run_query" ELSE "call_llm"

\* A branch that never runs the generated SQL.
after_generate_sql_ignores_sql(s) == "full_context"

\* _build_context, line 187: if sql.
after_generate_sql(s) ==
    IF s # None /\ s # <<>> THEN "run_query" ELSE "full_context"

\* _build_context, line 184: generate_sql(question), and the branch on its
\* result (line 187).
AskGenerateSql ==
    /\ pc = "generate_sql"
    /\ \/ /\ sql_client = None
          /\ AskFailed(E_client)
          /\ UNCHANGED <<sql_client, sql, log, tool_requests>>
       \/ /\ sql_client' = Client
          /\ \E reply \in Completions(SqlContents) :
                /\ log' = Append(log, Reply("completion:sql", reply.content))
                /\ tool_requests' = tool_requests + (IF reply.tool_calls THEN 1 ELSE 0)
                /\ IF reply.raised
                   THEN AskFailed(E_upstream) /\ UNCHANGED sql
                   ELSE IF reply.content = None
                   THEN AskFailed(E_noattr) /\ UNCHANGED sql
                   ELSE /\ sql' = sql_of_completion(reply.content)
                        /\ pc' = after_generate_sql(sql')
                        /\ UNCHANGED <<result, fault>>
    /\ UNCHANGED <<self_client, question, export_format, rows, used_rag, answer, ncalls>>

\* A handler that lets the query's failure through to ask.
query_except_propagates(e) == AskFailed(e)

\* _build_context, lines 193-196: the failure of the query is logged and
\* the broad context is used instead.
query_except(e) ==
    /\ pc' = "full_context"
    /\ UNCHANGED <<result, fault>>

\* _build_context, lines 188-196: sqlhelper.run_query(sql) and its handler.
AskRunQuery ==
    /\ pc = "run_query"
    /\ \/ \E n \in 0..MaxRows :
             /\ log' = Append(log, QueryCall(sql, TRUE, n))
             /\ rows' = n
             /\ used_rag' = FALSE
             /\ pc' = "call_llm"
             /\ UNCHANGED sql
             /\ UNCHANGED <<result, fault>>
       \/ /\ log' = Append(log, QueryCall(sql, FALSE, 0))
          /\ query_except(E_query)
          /\ UNCHANGED <<rows, used_rag, sql>>
    /\ UNCHANGED <<self_client, sql_client, question, export_format, answer,
                   tool_requests, ncalls>>

RECURSIVE Repeat(_, _)
Repeat(ev, n) == IF n = 0 THEN <<>> ELSE Append(Repeat(ev, n - 1), ev)

\* _build_context, lines 199-201, with _build_full_context: the fetches are
\* made in order; failed is the index of the one that raises, 0 if none does.
AskFullContext ==
    /\ pc = "full_context"
    /\ \E failed \in 0..NumFetches :
          /\ log' = log \o Repeat(Call("fetch"), IF failed = 0 THEN NumFetches ELSE failed)
          /\ IF failed = 0
             THEN /\ sql' = None
                  /\ rows' = 0
                  /\ used_rag' = TRUE
                  /\ pc' = "call_llm"
                  /\ UNCHANGED <<result, fault>>
             ELSE /\ AskFailed(E_db)
                  /\ UNCHANGED <<sql, rows, used_rag>>
    /\ UNCHANGED <<self_client, sql_client, question, export_format, answer,
                   tool_requests, ncalls>>

\* A test that asks for an export whatever the question says.
wants_export_always(fmt) == TRUE

\* ask, line 126: if export_format.
wants_export(fmt) == fmt # None

\* ask, lines 120-126 and 144-153: _call_llm, then either the return or the
\* export.
AskCallLlm ==
    /\ pc = "call_llm"
    /\ \E reply \in Completions(AnswerContents) :
          /\ log' = Append(log, Reply("completion:answer", reply.content))
          /\ tool_requests' = tool_requests + (IF reply.tool_calls THEN 1 ELSE 0)
          /\ IF reply.raised
             THEN AskFailed(E_upstream) /\ UNCHANGED answer
             ELSE IF reply.content = None
             THEN AskFailed(E_empty) /\ UNCHANGED answer
             ELSE /\ answer' = strip(reply.content)
                  /\ IF ~wants_export(export_format)
                     THEN AskSucceeded(answer', sql, rows, used_rag, None, 0)
                     ELSE pc' = "export" /\ UNCHANGED <<result, fault>>
    /\ UNCHANGED <<self_client, sql_client, question, export_format, sql, rows,
                   used_rag, ncalls>>

\* ask, lines 126-153: await export_analytics(...), then the return.
AskExport ==
    /\ pc = "export"
    /\ \E mcp \in McpOutcomes :
          LET export_result == export_analytics(export_format, rows, mcp)
          IN  /\ log' = IF export_result.called
                        THEN log \o <<ExportCall(answer), McpCall(mcp)>>
                        ELSE Append(log, ExportCall(answer))
              /\ IF export_result.status = "success"
                 THEN AskSucceeded(answer, sql, rows, used_rag,
                                   export_result.download_url,
                                   export_result.file_size_bytes)
                 ELSE AskSucceeded(answer, sql, rows, used_rag, None, 0)
    /\ UNCHANGED <<self_client, sql_client, question, export_format, sql, rows,
                   used_rag, answer, tool_requests, ncalls>>

\* Another ask call, running concurrently on the same agent in the same
\* process, passes one of the two _get_client (ask_agent.py lines 164-171,
\* sql_agent.py lines 24-35) and creates the client it finds missing.  The
\* clients are the only state of that call this call can read.
OtherAskGetsClient ==
    /\ \/ /\ self_client = None
          /\ self_client' = Client
          /\ UNCHANGED sql_client
       \/ /\ sql_client = None
          /\ sql_client' = Client
          /\ UNCHANGED self_client
    /\ UNCHANGED <<pc, question, export_format, sql, rows, used_rag, answer,
                   result, log, tool_requests, fault, ncalls>>

(***************************************************************************)
(* agents/tools/registry.py                                                *)
(***************************************************************************)
_REGISTRY ==
    {"query_database", "get_analytics_overview", "export_to_excel",
     "export_to_pdf", "export_to_csv"}

\* The signature of each registered callable.
ToolParams(tool_name) ==
    CASE tool_name = "query_database" ->
            [required |-> {"sql"}, optional |-> {}]
      [] tool_name = "get_analytics_overview" ->
            [required |-> {}, optional |-> {}]
      [] tool_name = "export_to_excel" ->
            [required |-> {"question", "answer", "rows"}, optional |-> {"filename"}]
      [] tool_name = "export_to_pdf" ->
            [required |-> {"question", "answer"}, optional |-> {"rows", "filename"}]
      [] tool_name = "export_to_csv" ->
            [required |-> {"rows"}, optional |-> {"filename"}]

\* The values the rows argument may take: a list of len rows, None, a
\* number, or a string of len characters.
RowsNone == [kind |-> "None", len |-> 0]
RowsValues ==
    {[kind |-> "list", len |-> MaxRows], RowsNone, [kind |-> "int", len |-> 1],
     [kind |-> "str", len |-> 1]}

\* The query texts a model may put in a tool call.
ToolSqls ==
    { <<"S","E","L","E","C","T"," ","x">>,
      <<"D","R","O","P"," ","T","A","B","L","E"," ","U","s","e","r","s">>,
      <<"s","e","l","e","c","t"," ","x",";","D","r","o","p"," ","x">> }

\* An argument bag: the keys present, and the values of sql and rows (None
\* when the key is absent).
ArgBags ==
    {[keys |-> k, sql |-> None, rows |-> RowsNone] : k \in {{}, {"question", "answer"}}}
    \cup {[keys |-> {"sql"}, sql |-> t, rows |-> RowsNone] : t \in ToolSqls}
    \cup {[keys |-> {"sql", "limit"}, sql |-> t, rows |-> RowsNone] :
             t \in {<<"S","E","L","E","C","T"," ","x">>}}
    \cup {[keys |-> k, sql |-> None, rows |-> r] :
             k \in {{"rows"}, {"rows", "filename"}, {"question", "answer", "rows"}},
             r \in RowsValues}

\* fn(**tool_args) raises TypeError before the body runs: a required
\* parameter is missing or a key is no parameter.
BindFails(tool_name, tool_args) ==
    LET params == ToolParams(tool_name)
    IN  \/ ~(params.required \subseteq tool_args.keys)
        \/ ~(tool_args.keys \subseteq (params.required \cup params.optional))

\* len(rows) raises TypeError.
LenFails(r) == r.kind \notin {"list", "str"}
\* bool(rows)
Truthy(r) == r.len # 0

ToolDict(status, message) ==
    [status |-> status, message |-> message, sql |-> None, row_count |-> 0,
     download_url |-> None, file_size_bytes |-> 0, exotic |-> FALSE]

\* What the collaborators below the tools may do.  run_query raises or
\* returns n rows, whose values may be dates or Decimals (exotic); the
\* fetches of the overview raise or not; an exporter returns an error dict
\* (raised) or the success dict of a file of n bytes.
ToolEnvs ==
    [raised : BOOLEAN, n : 0..MaxRows, exotic : BOOLEAN]
    \cup [raised : BOOLEAN, n : 1..MaxFileSize, exotic : {FALSE}]

E_tool == <<"tool failure">>
E_build == <<"rows are not a list of dicts">>

\* _query_database(sql), lines 27-40.
_query_database(text, env) ==
    IF env.raised
    THEN [ToolDict("error", E_db) EXCEPT !.sql = text]
    ELSE [ToolDict("success", None) EXCEPT !.sql = text, !.row_count = env.n,
                                           !.exotic = env.exotic /\ env.n > 0]

\* _get_analytics_overview(), lines 42-72.
_get_analytics_overview(env) ==
    IF env.raised THEN ToolDict("error", E_db)
    ELSE [ToolDict("success", None) EXCEPT !.exotic = env.exotic]

\* export_excel / export_pdf / export_csv of exporters/__init__.py: a
\* success dict of upload_to_blob, or an error dict.  Building the file
\* from rows that are a string raises inside the try block.
exporter(r, env) ==
    IF r.kind = "str" THEN ToolDict("error", E_build)
    ELSE IF ~env.raised
    THEN [ToolDict("success", None) EXCEPT !.download_url = DownloadUrl,
                                           !.file_size_bytes = env.n]
    ELSE ToolDict("error", E_tool)

\* await fn(**tool_args), line 129: exc tells what was raised and where,
\* value is what the tool returned, calls are the collaborator calls made.
NoCalls == <<>>
Raised(exc) == [exc |-> exc, value |-> ToolDict("error", None), calls |-> NoCalls]
Returned(value, calls) == [exc |-> "none", value |-> value, calls |-> calls]

ToolCall(tool_name, tool_args, env) ==
    LET r == IF "rows" \in tool_args.keys THEN tool_args.rows ELSE RowsNone
    IN  IF BindFails(tool_name, tool_args) THEN Raised("TypeError:binding")
        ELSE CASE tool_name = "query_database" ->
                    Returned(_query_database(tool_args.sql, env),
                             <<RunQueryCall(tool_args.sql)>>)
               [] tool_name = "get_analytics_overview" ->
                    Returned(_get_analytics_overview(env), <<Call("fetch")>>)
               [] tool_name = "export_to_excel" ->
                    IF LenFails(r) THEN Raised("TypeError:body")
                    ELSE Returned(exporter(r, env), <<Call("export_excel")>>)
               [] tool_name = "export_to_pdf" ->
                    IF Truthy(r) /\ LenFails(r) THEN Raised("TypeError:body")
                    ELSE Returned(exporter(r, env), <<Call("export_pdf")>>)
               [] tool_name = "export_to_csv" ->
                    IF LenFails(r) THEN Raised("TypeError:body")
                    ELSE Returned(exporter(r, env), <<Call("export_csv")>>)

\* json.dumps(result, default=str), line 138: a value json cannot encode
\* goes through default; without a default it raises TypeError.
json_dumps(value, has_default) ==
    IF value.exotic /\ ~has_default
    THEN [raised |-> TRUE, json |-> value]
    ELSE [raised |-> FALSE, json |-> [value EXCEPT !.exotic = FALSE]]

\* A dispatcher that runs a default tool when the name is not registered.
dispatch_defaults_to_overview(tool_name, tool_args, env) ==
    LET name == IF tool_name \in _REGISTRY THEN tool_name ELSE "get_analytics_overview"
        args == IF tool_name \in _REGISTRY THEN tool_args
                ELSE [keys |-> {}, sql |-> None, rows |-> RowsNone]
        call == ToolCall(name, args, env)
        res  == IF call.exc \in {"TypeError:binding", "TypeError:body"}
                THEN ToolDict("error", <<"Invalid arguments for ", name, "TypeError">>)
                ELSE IF call.exc # "none"
                THEN ToolDict("error", E_tool)
                ELSE call.value
    IN  [out |-> json_dumps(res, TRUE), exc |-> call.exc, calls |-> call.calls]

\* dispatch(tool_name, tool_args), lines 116-138.  The outcome is what
\* dispatch returns (or that it raised), with the exception of the tool, if
\* any, and the collaborator calls.
dispatch(tool_name, tool_args, env) ==
    IF tool_name \notin _REGISTRY
    THEN [out   |-> json_dumps(ToolDict("error", <<"Unknown tool: ", tool_name>>), TRUE),
          exc   |-> "none",
          calls |-> NoCalls]
    ELSE LET call == ToolCall(tool_name, tool_args, env)
             res  == IF call.exc \in {"TypeError:binding", "TypeError:body"}
                     THEN ToolDict("error", <<"Invalid arguments for ", tool_name, "TypeError">>)
                     ELSE IF call.exc # "none"
                     THEN ToolDict("error", E_tool)
                     ELSE call.value
         IN  [out |-> json_dumps(res, TRUE), exc |-> call.exc, calls |-> call.calls]

\* The failure kinds of the dispatcher's contract, read off the result: the
\* code tells them apart by the message only.
ResultKind(d) ==
    IF d.status # "error" THEN "Success"
    ELSE IF d.message[1] = "Unknown tool: " THEN "UnknownTool"
    ELSE IF d.message[1] = "Invalid arguments for " THEN "InvalidArguments"
    ELSE "ToolExecutionError"

ToolNames == _REGISTRY \cup {"drop_database"}

\* The environments that make a difference to the call: those whose fields
\* the tool reads.
QuietEnv == [raised |-> FALSE, n |-> 0, exotic |-> FALSE]
EnvsFor(tool_name, tool_args) ==
    IF tool_name \notin _REGISTRY THEN {QuietEnv}
    ELSE IF ToolCall(tool_name, tool_args, QuietEnv).exc # "none" THEN {QuietEnv}
    ELSE IF tool_name = "query_database"
    THEN {e \in ToolEnvs : e.n <= MaxRows /\ (e.raised => e.n = 0) /\ (e.exotic => e.n > 0)}
    ELSE IF tool_name = "get_analytics_overview"
    THEN {e \in ToolEnvs : e.n = 1 /\ (e.raised => ~e.exotic)}
    ELSE {e \in ToolEnvs : e.n \in 1..MaxFileSize /\ ~e.exotic /\ (e.raised => e.n = 1)}

DispatchInit ==
    /\ tool_results = <<>>

\* The agent loop awaits dispatch(tool_name, tool_args).
Dispatch(tool_name, tool_args, env) ==
    /\ Len(tool_results) < MaxDispatches
    /\ LET d == dispatch(tool_name, tool_args, env)
       IN  /\ tool_results' = Append(tool_results,
                 [tool_name |-> tool_name, tool_args |-> tool_args,
                  raised |-> d.out.raised, result |-> d.out.json, exc |-> d.exc,
                  calls |-> d.calls])
           /\ log' = log \o d.calls
    /\ UNCHANGED <<self_client, sql_client, pc, question, export_format, sql, rows,
                   used_rag, answer, result, tool_requests, fault, ncalls>>

(***************************************************************************)
(* sqlhelper.py: the Users and Nominations tables                          *)
(***************************************************************************)
\* The UserId of the rows of Users: an employee and their manager.  NoUser
\* is the None of a lookup that finds no row.  A user's id also stands for
\* their userPrincipalName; UnknownUpn is a name with no row.
Employee == 1
Manager == 2
Users == {Employee, Manager}
NoUser == 0
UnknownUpn == 9
Upns == Users \cup {UnknownUpn}

\* Users.ManagerId (NoUser: NULL).
ManagerOf(u) == CASE u = Employee -> Manager [] OTHER -> NoUser

get_user_by_upn(upn) == IF upn \in Users THEN upn ELSE NoUser

\* A row of Nominations as create_nomination inserts it; the dates are
\* FALSE while NULL.
NominationRow(nominator, beneficiary, approver) ==
    [NominatorId |-> nominator, BeneficiaryId |-> beneficiary, ApproverId |-> approver,
     Status |-> "Pending", ApprovedDate |-> FALSE, PayedDate |-> FALSE]

\* The table t is the sequence of its rows, NominationId being the index.
create_nomination(t, nominator, beneficiary, approver) ==
    Append(t, NominationRow(nominator, beneficiary, approver))

get_nomination_approver(t, id) ==
    IF id \in DOMAIN t THEN t[id].ApproverId ELSE NoUser

get_nomination_status(t, id) ==
    IF id \in DOMAIN t THEN t[id].Status ELSE "None"

approve_nomination(t, id) ==
    IF id \in DOMAIN t
    THEN [t EXCEPT ![id].Status = "Approved", ![id].ApprovedDate = TRUE]
    ELSE t

reject_nomination(t, id) ==
    IF id \in DOMAIN t THEN [t EXCEPT ![id].Status = "Rejected"] ELSE t

\* Whether get_nomination_for_payroll finds the row.
get_nomination_for_payroll(t, id) == id \in DOMAIN t

mark_nomination_as_paid(t, id) ==
    IF id \in DOMAIN t
    THEN [t EXCEPT ![id].Status = "Paid", ![id].PayedDate = TRUE]
    ELSE t

\* An entry of Impersonation_AuditLog as log_impersonation inserts it.
AuditEntry(admin_upn, impersonated_upn, action) ==
    [admin |-> admin_upn, impersonated |-> impersonated_upn, action |-> action]

(***************************************************************************)
(* token_utils.py                                                          *)
(***************************************************************************)
\* The tokens a link may carry: verifies tells whether jwt.decode accepts
\* the signature and the expiry; the rest is the payload.
ActionTokens ==
    [verifies : BOOLEAN, nomination_id : 1..(MaxNominations + 1),
     action : {"approve", "reject"}, approver_id : Users]

\* A verification that accepts every token.
verify_action_token_trusts_all(token) == TRUE

\* verify_action_token: whether a payload is returned (None otherwise).
verify_action_token(token) == token.verifies

(***************************************************************************)
(* auth.py                                                                 *)
(***************************************************************************)
AdminRoles == {"AWard_Nomination_Admin", "Administrator"}

\* The bearer tokens of the requests: the upn claim and the roles claim.
RoleSets == {{"Reader"}, {"AWard_Nomination_Admin"}, {"Administrator"}}
BearerTokens == [upn : Upns, roles : RoleSets]

\* The X-Impersonate-User header: absent, or present with a value: the
\* manager's name, a name with no row, or the empty string (upn = NoUser).
NoHeader == [present |-> FALSE, upn |-> NoUser]
ImpersonateHeaders ==
    {NoHeader} \cup [present : {TRUE}, upn : {Manager, UnknownUpn, NoUser}]

\* bool(x_impersonate_user)
HeaderGiven(header) == header.present /\ header.upn # NoUser

\* The request was turned down with an HTTP error before the endpoint ran.
Refused(code, user, roles) ==
    [code |-> code, actual |-> user, admin |-> roles \cap AdminRoles # {},
     effective |-> NoUser, is_impersonating |-> FALSE, entries |-> <<>>]

\* A dependency that lets every user impersonate.
get_current_user_with_impersonation_for_all(token, header, audit_ok) ==
    LET row == get_user_by_upn(token.upn)
    IN  IF row = NoUser THEN Refused(404, NoUser, token.roles)
        ELSE IF ~HeaderGiven(header)
        THEN [code |-> 200, actual |-> row, admin |-> token.roles \cap AdminRoles # {},
              effective |-> row, is_impersonating |-> FALSE, entries |-> <<>>]
        ELSE IF get_user_by_upn(header.upn) = NoUser
        THEN Refused(404, row, token.roles)
        ELSE IF ~audit_ok THEN Refused(500, row, token.roles)
        ELSE [code |-> 200, actual |-> row, admin |-> token.roles \cap AdminRoles # {},
              effective |-> get_user_by_upn(header.upn), is_impersonating |-> TRUE,
              entries |-> <<AuditEntry(row, header.upn, "impersonation_started")>>]

\* get_current_user_with_impersonation, with get_current_user: the user
\* context, the audit entries written on the way, or the refusal.
\* audit_ok tells whether log_impersonation returns (it raises otherwise).
get_current_user_with_impersonation(token, header, audit_ok) ==
    LET row == get_user_by_upn(token.upn)
    IN  IF row = NoUser THEN Refused(404, NoUser, token.roles)
        ELSE IF ~HeaderGiven(header)
        THEN [code |-> 200, actual |-> row, admin |-> token.roles \cap AdminRoles # {},
              effective |-> row, is_impersonating |-> FALSE, entries |-> <<>>]
        ELSE IF token.roles \cap AdminRoles = {}
        THEN Refused(403, row, token.roles)
        ELSE IF get_user_by_upn(header.upn) = NoUser
        THEN Refused(404, row, token.roles)
        ELSE IF ~audit_ok THEN Refused(500, row, token.roles)
        ELSE [code |-> 200, actual |-> row, admin |-> TRUE,
              effective |-> get_user_by_upn(header.upn), is_impersonating |-> TRUE,
              entries |-> <<AuditEntry(row, header.upn, "impersonation_started")>>]

\* log_action_if_impersonating
log_action_if_impersonating(user_context, action) ==
    IF user_context.is_impersonating
    THEN <<AuditEntry(user_context.actual, user_context.effective, action)>>
    ELSE <<>>

(***************************************************************************)
(* main.py: the nomination endpoints                                       *)
(***************************************************************************)
\* generate_payroll_extract: the table and the extract files afterwards.
generate_payroll_extract(t, files, id) ==
    IF get_nomination_for_payroll(t, id)
    THEN [noms |-> mark_nomination_as_paid(t, id), payroll |-> Append(files, id)]
    ELSE [noms |-> t, payroll |-> files]

\* What is kept of the request in progress or handled last.  stage tells
\* whether the authentication dependency has let it through to the
\* endpoint ("authenticated") or it has been answered ("done").
NoRequest ==
    [stage |-> "none", endpoint |-> "none", code |-> 0, page |-> "none",
     actual |-> NoUser, admin |-> FALSE, header_present |-> FALSE,
     header_given |-> FALSE,
     effective |-> NoUser, is_impersonating |-> FALSE,
     nid |-> 0, action |-> "none", status_before |-> "None",
     changed |-> FALSE, emailed |-> FALSE, extracted |-> FALSE,
     audit_before |-> 0, audit_mark |-> 0, token_ok |-> FALSE,
     token_approver |-> NoUser]

NomInit ==
    /\ noms = <<>>
    /\ payroll = <<>>
    /\ emails = <<>>
    /\ audit = <<>>
    /\ last = NoRequest
    /\ nreq = 0

\* The part of last a handler fills in from what it did.
Observed(req) ==
    [req EXCEPT !.stage = "done",
                !.changed = noms' # noms,
                !.emailed = emails' # emails,
                !.extracted = payroll' # payroll]

\* A request with a bearer token arrives at an endpoint that depends on
\* get_current_user_with_impersonation: the dependency runs before the
\* endpoint.
Authenticate(token, header, audit_ok) ==
    /\ last.stage # "authenticated"
    /\ nreq < MaxRequests
    /\ nreq' = nreq + 1
    /\ LET ctx == get_current_user_with_impersonation(token, header, audit_ok)
       IN  /\ audit' = audit \o ctx.entries
           /\ last' = [NoRequest EXCEPT
                          !.stage = IF ctx.code = 200 THEN "authenticated" ELSE "done",
                          !.code = ctx.code,
                          !.actual = ctx.actual,
                          !.admin = ctx.admin,
                          !.header_present = header.present,
                          !.header_given = HeaderGiven(header),
                          !.effective = ctx.effective,
                          !.is_impersonating = ctx.is_impersonating,
                          !.audit_before = Len(audit),
                          !.audit_mark = Len(audit')]
    /\ UNCHANGED <<noms, payroll, emails>>
    /\ UNCHANGED <<guard_vars, ask_vars, tool_results>>

\* POST /api/nominations (create_nomination of main.py): the effective
\* user nominates beneficiary; critical tells whether the fraud assessment
\* blocks the nomination, mail whether the manager's email is sent.
CreateNomination(beneficiary, critical, mail) ==
    /\ last.stage = "authenticated"
    /\ LET id  == Len(noms) + 1
           req == [last EXCEPT !.endpoint = "create"]
       IN  IF get_user_by_upn(beneficiary) = NoUser
           THEN /\ UNCHANGED <<noms, payroll, emails, audit>>
                /\ last' = Observed([req EXCEPT !.code = 404])
           ELSE IF ManagerOf(beneficiary) = NoUser \/ critical
           THEN /\ UNCHANGED <<noms, payroll, emails, audit>>
                /\ last' = Observed([req EXCEPT !.code = 400])
           ELSE /\ Len(noms) < MaxNominations
                /\ noms' = create_nomination(noms, last.effective, beneficiary,
                                             ManagerOf(beneficiary))
                /\ audit' = audit \o log_action_if_impersonating(last, "created_nomination")
                /\ emails' = IF mail THEN Append(emails, [nid |-> id, kind |-> "pending"])
                             ELSE emails
                /\ UNCHANGED payroll
                /\ last' = Observed([req EXCEPT !.code = 201, !.nid = id,
                                                !.action = "create"])
    /\ UNCHANGED nreq
    /\ UNCHANGED <<guard_vars, ask_vars, tool_results>>

\* The approve branch shared by the endpoint and the email link:
\* sqlhelper.approve_nomination, the email to the nominator, then
\* generate_payroll_extract (the audit entry of the endpoint is written in
\* between and is added by the caller).
Approve(id, mail) ==
    LET done == generate_payroll_extract(approve_nomination(noms, id), payroll, id)
    IN  /\ noms' = done.noms
        /\ payroll' = done.payroll
        /\ emails' = IF mail THEN Append(emails, [nid |-> id, kind |-> "approved"])
                     ELSE emails

\* The reject branch shared by the endpoint and the email link.
Reject(id, mail) ==
    /\ noms' = reject_nomination(noms, id)
    /\ emails' = IF mail THEN Append(emails, [nid |-> id, kind |-> "rejected"])
                 ELSE emails
    /\ UNCHANGED payroll

\* approve_nomination of main.py, the test of line 439.
is_approver(approver, user) == approver = user

\* POST /api/nominations/approve (approve_nomination of main.py).
ApproveNomination(id, approved, mail) ==
    /\ last.stage = "authenticated"
    /\ LET approver == get_nomination_approver(noms, id)
           req      == [last EXCEPT !.endpoint = "approve", !.nid = id,
                                    !.status_before = get_nomination_status(noms, id)]
       IN  IF approver = NoUser
           THEN /\ UNCHANGED <<noms, payroll, emails, audit>>
                /\ last' = Observed([req EXCEPT !.code = 404])
           ELSE IF ~is_approver(approver, last.effective)
           THEN /\ UNCHANGED <<noms, payroll, emails, audit>>
                /\ last' = Observed([req EXCEPT !.code = 403])
           ELSE IF approved
           THEN /\ Approve(id, mail)
                /\ audit' = audit \o log_action_if_impersonating(last, "approved_nomination")
                /\ last' = Observed([req EXCEPT !.action = "approve"])
           ELSE /\ Reject(id, mail)
                /\ audit' = audit \o log_action_if_impersonating(last, "rejected_nomination")
                /\ last' = Observed([req EXCEPT !.action = "reject"])
    /\ UNCHANGED nreq
    /\ UNCHANGED <<guard_vars, ask_vars, tool_results>>

\* The statuses for which handle_email_action only reports the outcome.
AlreadyProcessed == {"Approved", "Rejected"}

\* GET /api/nominations/email-action (handle_email_action).
HandleEmailAction(token, mail) ==
    /\ last.stage # "authenticated"
    /\ nreq < MaxRequests
    /\ nreq' = nreq + 1
    /\ LET id       == token.nomination_id
           approver == get_nomination_approver(noms, id)
           req      == [NoRequest EXCEPT !.endpoint = "email", !.code = 200,
                                         !.nid = id,
                                         !.status_before = get_nomination_status(noms, id),
                                         !.audit_before = Len(audit),
                                         !.audit_mark = Len(audit),
                                         !.token_ok = token.verifies,
                                         !.token_approver = token.approver_id]
       IN  IF ~verify_action_token(token)
           THEN /\ UNCHANGED <<noms, payroll, emails>>
                /\ last' = Observed([req EXCEPT !.page = "invalid"])
           ELSE IF approver = NoUser
           THEN /\ UNCHANGED <<noms, payroll, emails>>
                /\ last' = Observed([req EXCEPT !.page = "not_found"])
           ELSE IF approver # token.approver_id
           THEN /\ UNCHANGED <<noms, payroll, emails>>
                /\ last' = Observed([req EXCEPT !.page = "not_authorized"])
           ELSE IF get_nomination_status(noms, id) \in AlreadyProcessed
           THEN /\ UNCHANGED <<noms, payroll, emails>>
                /\ last' = Observed([req EXCEPT !.page = "already"])
           ELSE IF token.action = "approve"
           THEN /\ Approve(id, mail)
                /\ last' = Observed([req EXCEPT !.page = "approved", !.action = "approve"])
           ELSE /\ Reject(id, mail)
                /\ last' = Observed([req EXCEPT !.page = "rejected", !.action = "reject"])
    /\ UNCHANGED audit
    /\ UNCHANGED <<guard_vars, ask_vars, tool_results>>

(***************************************************************************)
(* Specifications                                                          *)
(***************************************************************************)
vars == <<guard_vars, ask_vars, tool_results, nom_vars>>

GuardIdle ==
    /\ query_text = <<>>
    /\ verdict = "unset"
    /\ generated = Unset

\* The guard: a text is chosen, then _is_safe and the post-processing of
\* generate_sql are applied to it.
GuardInit ==
    /\ query_text \in Texts
    /\ verdict = "unset"
    /\ generated = Unset
    /\ AskInit
    /\ self_client = None
    /\ DispatchInit
    /\ NomInit

Validate ==
    /\ verdict = "unset"
    /\ verdict' = validate(query_text)
    /\ UNCHANGED <<query_text, generated, ask_vars, tool_results, nom_vars>>

GuardGenerate ==
    /\ generated = Unset
    /\ generated' = sql_of_completion(query_text)
    /\ UNCHANGED <<query_text, verdict, ask_vars, tool_results, nom_vars>>

GuardNext == Validate \/ GuardGenerate

GuardSpec == GuardInit /\ [][GuardNext]_vars

\* The AskAgent pipeline.
Init == GuardIdle /\ AskInit /\ DispatchInit /\ NomInit

Next ==
    \/ (\E q \in Questions : Ask(q)) /\ UNCHANGED <<guard_vars, tool_results, nom_vars>>
    \/ AskGetClient /\ UNCHANGED <<guard_vars, tool_results, nom_vars>>
    \/ AskGenerateSql /\ UNCHANGED <<guard_vars, tool_results, nom_vars>>
    \/ AskRunQuery /\ UNCHANGED <<guard_vars, tool_results, nom_vars>>
    \/ AskFullContext /\ UNCHANGED <<guard_vars, tool_results, nom_vars>>
    \/ AskCallLlm /\ UNCHANGED <<guard_vars, tool_results, nom_vars>>
    \/ AskExport /\ UNCHANGED <<guard_vars, tool_results, nom_vars>>
    \/ OtherAskGetsClient /\ UNCHANGED <<guard_vars, tool_results, nom_vars>>

Spec == Init /\ [][Next]_vars

\* The tool dispatcher.
DispatchSpecInit == GuardIdle /\ AskInit /\ self_client = None /\ DispatchInit /\ NomInit

DispatchNext ==
    \E tool_name \in ToolNames, tool_args \in ArgBags :
      \E env \in EnvsFor(tool_name, tool_args) :
        Dispatch(tool_name, tool_args, env) /\ UNCHANGED <<guard_vars, nom_vars>>

DispatchSpec == DispatchSpecInit /\ [][DispatchNext]_vars

\* The nomination endpoints.
NomSpecInit == GuardIdle /\ AskInit /\ self_client = None /\ DispatchInit /\ NomInit

NomNext ==
    \/ \E token \in BearerTokens, header \in ImpersonateHeaders, audit_ok \in BOOLEAN :
          Authenticate(token, header, audit_ok)
    \/ \E beneficiary \in Users \cup {UnknownUpn}, critical \in BOOLEAN, mail \in BOOLEAN :
          CreateNomination(beneficiary, critical, mail)
    \/ \E id \in 1..(MaxNominations + 1), approved \in BOOLEAN, mail \in BOOLEAN :
          ApproveNomination(id, approved, mail)
    \/ \E token \in ActionTokens, mail \in BOOLEAN :
          HandleEmailAction(token, mail)

NomSpec == NomSpecInit /\ [][NomNext]_vars

\* Every collaborator call returns or fails, so a started step completes.
FairSpec == Spec /\ WF_vars(Next)

(***************************************************************************)
(* What the log of the current ask call tells                              *)
(***************************************************************************)
Count(ops) == Cardinality({i \in 1..Len(log) : log[i].op \in ops})

CompletionOps == {"completion:sql", "completion:answer"}
ToolOps == {"run_query", "fetch", "export", "mcp_call"}

NumCompletions == Count(CompletionOps)
NumToolInvocations == Count(ToolOps)

Active == pc \notin {"idle", "returned", "raised"}

\* The data query was run and raised: the broad context was fetched next.
QueryFailed ==
    \E i \in 1..(Len(log) - 1) : log[i].op = "run_query" /\ log[i + 1].op = "fetch"

\* The export was asked for and gave no file.
ExportFailed ==
    /\ pc = "returned"
    /\ Count({"export"}) > 0
    /\ result.export_path = None

\* Every completion of the call came back with tool-call requests.
ModelAlwaysRequestsTools == NumCompletions > 0 /\ tool_requests = NumCompletions

(***************************************************************************)
(* Claims                                                                  *)
(***************************************************************************)

\* C1: ask never raises to its caller: whatever collaborator fails (client
\* construction, SQL generation, query execution, broad-context fetch,
\* answer completion, export), ask returns an AskResult, and when an
\* exception left the try block that result has error set to its message
\* and an empty answer.
C1_AskNeverRaises ==
    /\ pc # "raised"
    /\ (fault # None =>
           /\ pc = "returned"
           /\ result.error = fault
           /\ result.error # None
           /\ result.answer = <<>>)

\* C1 witness: a call ended on a failure path (a broad-context fetch
\* raised) and returned an outcome with error set.
C1_Witness ==
    /\ pc = "returned"
    /\ fault = E_db
    /\ result.error = E_db

\* C2 (as claimed): a query_database call whose text the guard rejects
\* yields a failure of kind UnsafeQuery and sqlhelper.run_query is never
\* called with that text.
C2_UnsafeQueryNeverRuns ==
    \A i \in 1..Len(tool_results) :
        LET d == tool_results[i]
        IN  (/\ d.tool_name = "query_database"
             /\ d.tool_args.keys = {"sql"}
             /\ validate(d.tool_args.sql) = "Rejected")
            => /\ d.result.status = "error"
               /\ d.result.message = <<"UnsafeQuery">>
               /\ \A j \in 1..Len(log) : log[j] # RunQueryCall(d.tool_args.sql)

\* C3 (as claimed): dispatch never raises, and when the tool raised inside
\* its body the result is a failure of kind ToolExecutionError.
C3_DispatchContainsFaults ==
    \A i \in 1..Len(tool_results) :
        LET d == tool_results[i]
        IN  /\ ~d.raised
            /\ (d.exc \notin {"none", "TypeError:binding"}
                   => ResultKind(d.result) = "ToolExecutionError")

\* The keywords the guard's contract bans.
BannedKeywords ==
    {w_insert, w_update, w_delete, w_drop, w_alter, w_execute, w_truncate, w_merge}

\* The text contains a banned keyword, in any letter case.
ContainsBanned(text) == \E kw \in BannedKeywords : contains(lower(text), kw)

\* C4: every query text that contains a banned keyword (insert, update,
\* delete, drop, alter, execute, truncate, merge) anywhere, in any letter
\* case, is Rejected by _is_safe.
C4_BannedKeywordRejected ==
    (verdict # "unset" /\ ContainsBanned(query_text)) => verdict = "Rejected"

\* C4 witness: a text that begins with select and carries a banned keyword
\* in upper or mixed case was validated and rejected.
C4_Witness ==
    /\ verdict = "Rejected"
    /\ startswith(strip(lower(query_text)), w_select)
    /\ ContainsBanned(query_text)
    /\ ~ \E kw \in BannedKeywords : contains(query_text, kw)

\* C5 (as claimed): the guard allows only text that, case-normalized,
\* begins with select and contains no mutating keyword; every text that
\* does not begin with select is Rejected.
C5_OnlySelectAllowed ==
    verdict = "Allowed" =>
        /\ startswith(strip(lower(query_text)), w_select)
        /\ ~ContainsBanned(query_text)

C7_Termination ==
    /\ [](NumCompletions <= 2 /\ NumToolInvocations <= NumFetches + 3)
    /\ (Active ~> pc = "returned")

\* C7 witness: a call returned after the longest pipeline: a query that
\* failed, the broad context, and an export.
C7_Witness ==
    /\ pc = "returned"
    /\ NumCompletions = 2
    /\ NumToolInvocations = NumFetches + 3

\* The final completion had no content, or a content that strips to the
\* empty text.
BlankFinalContent ==
    /\ pc = "returned"
    /\ \/ fault = E_empty
       \/ fault = None /\ answer = <<>>

\* C8 (as claimed): a final completion whose content is absent, empty or
\* blank makes ask end with the empty-completion error, not with a
\* successful outcome whose answer is empty.
C8_BlankCompletionFails ==
    BlankFinalContent => result.error = E_empty

\* The error of an export that gave no file.
E_export == E_tool

\* C9: a failed data query or a failed export is never terminal for ask:
\* the outcome's error is never that failure, and when no other step fails
\* ask returns the answer with error unset (after a failed query: from the
\* broad context, with no sql and no rows; after a failed export: with no
\* export reference).
C9_ToolFailuresNotTerminal ==
    pc = "returned" =>
        /\ result.error \notin {E_query, E_export}
        /\ ((QueryFailed \/ ExportFailed) /\ fault = None =>
               /\ result.error = None
               /\ result.answer = answer
               /\ Count({"completion:answer"}) = 1)
        /\ (QueryFailed /\ fault = None =>
               result.used_rag /\ result.sql = None /\ result.rows_fetched = 0)
        /\ (ExportFailed => result.export_size = 0)

\* C9 witness: the query failed, the export failed, and ask returned the
\* answer without error.
C9_Witness ==
    /\ pc = "returned"
    /\ QueryFailed
    /\ ExportFailed
    /\ result.error = None
    /\ result.answer # <<>>

\* C10: an upstream completion failure (in SQL generation or in the answer)
\* is terminal: ask returns an outcome with that error, and no completion,
\* tool invocation or export follows the failed completion.
C10_UpstreamFailureTerminal ==
    fault = E_upstream =>
        /\ pc = "returned"
        /\ result.error = E_upstream
        /\ log[Len(log)].op \in CompletionOps

\* C10 witness: the answer completion failed after a query had run, and
\* the call returned with the error.
C10_Witness ==
    /\ pc = "returned"
    /\ fault = E_upstream
    /\ result.error = E_upstream
    /\ Count({"run_query"}) = 1
    /\ log[Len(log)].op = "completion:answer"

\* A text the guard rejects as unsafe.
UnsafeText == <<"D","R","O","P"," ","x">>

\* C11 (as claimed): for a text that is the sentinel UNSUPPORTED in any
\* letter case the guard answers Rejected, and what generate_sql makes of
\* it can be told from what it makes of an unsafe query.
C11_SentinelRejected ==
    upper(strip(query_text)) = SENTINEL
        => /\ verdict # "unset" => verdict = "Rejected"
           /\ generated # Unset => generated # sql_of_completion(UnsafeText)

\* The SQL completion of the call answered with the sentinel (in any letter
\* case, fenced or not).
SentinelGenerated ==
    \E i \in 1..Len(log) :
        /\ log[i].op = "completion:sql"
        /\ log[i].arg # None
        /\ upper(strip_fences(log[i].arg)) = SENTINEL

\* C12: when query generation yields the sentinel, ask takes it as "no
\* data available" and not as an error: no data query is run (so none with
\* the sentinel text), the call goes on to the broad context, the sentinel
\* sets no fault, and unless a later collaborator fails the outcome has
\* error unset, no sql and used_rag set.
C12_SentinelMeansNoData ==
    SentinelGenerated =>
        /\ Count({"run_query"}) = 0
        /\ pc \notin {"generate_sql", "run_query"}
        /\ fault \in {None, E_db, E_upstream, E_empty}
        /\ (Len(log) = 1 => pc = "full_context" /\ fault = None)
        /\ \A i \in 2..Len(log) : log[i].op \in {"fetch", "completion:answer", "export", "mcp_call"}
        /\ (pc = "returned" /\ fault = None =>
               /\ result.error = None
               /\ result.sql = None
               /\ result.rows_fetched = 0
               /\ result.used_rag)

\* C12 witness: a call whose SQL completion was the sentinel returned an
\* answer from the broad context, with error unset.
C12_Witness ==
    /\ SentinelGenerated
    /\ pc = "returned"
    /\ result.error = None
    /\ result.used_rag
    /\ result.answer # <<>>
    /\ Count({"fetch"}) = NumFetches

\* C13: dispatch with a tool name that is not registered returns a failure
\* of kind UnknownTool, and no tool implementation, data-layer operation or
\* export operation is invoked for it.
C13_UnknownToolRunsNothing ==
    \A i \in 1..Len(tool_results) :
        LET d == tool_results[i]
        IN  d.tool_name \notin _REGISTRY
            => /\ ~d.raised
               /\ d.result.status = "error"
               /\ ResultKind(d.result) = "UnknownTool"
               /\ d.result.message = <<"Unknown tool: ", d.tool_name>>
               /\ d.exc = "none"
               /\ d.calls = NoCalls

\* C13 witness: the unregistered name drop_database was dispatched with a
\* non-empty argument bag and answered with the UnknownTool failure.
C13_Witness ==
    \E i \in 1..Len(tool_results) :
        /\ tool_results[i].tool_name = "drop_database"
        /\ tool_results[i].tool_args.keys # {}
        /\ ResultKind(tool_results[i].result) = "UnknownTool"

\* The argument bag does not fit the tool's schema: a required key is
\* missing, a key is unexpected, or rows is of the wrong type (not a list,
\* nor None where rows is optional).
ShapeMismatch(tool_name, tool_args) ==
    \/ BindFails(tool_name, tool_args)
    \/ /\ "rows" \in tool_args.keys
       /\ tool_args.rows.kind # "list"
       /\ ~(tool_name = "export_to_pdf" /\ tool_args.rows = RowsNone)

\* C14 (as claimed): dispatch classifies a failure by its cause: an
\* argument-shape mismatch yields InvalidArguments, any other failure of a
\* registered tool yields ToolExecutionError, and neither kind is reported
\* for the other cause.
C14_FailuresClassifiedByCause ==
    \A i \in 1..Len(tool_results) :
        LET d    == tool_results[i]
            kind == ResultKind(d.result)
        IN  d.tool_name \in _REGISTRY
            => /\ ShapeMismatch(d.tool_name, d.tool_args) => kind = "InvalidArguments"
               /\ kind = "InvalidArguments" => ShapeMismatch(d.tool_name, d.tool_args)
               /\ (~ShapeMismatch(d.tool_name, d.tool_args) /\ d.result.status = "error")
                     => kind = "ToolExecutionError"

\* The stage of the pipeline a collaborator call belongs to.
Rank(op) ==
    CASE op = "completion:sql" -> 1
      [] op = "run_query" -> 2
      [] op = "fetch" -> 3
      [] op = "completion:answer" -> 4
      [] op = "export" -> 5
      [] op = "mcp_call" -> 6

\* The calls of log before position i whose op is in ops.
Before(i, ops) == {j \in 1..(i - 1) : log[j].op \in ops}

\* C15: within one ask call the collaborator calls are made one after
\* another in the order of their data dependencies: the query is run only
\* after the SQL completion returned its text, the answer is asked for only
\* after the query returned (or, failing that, after all the broad-context
\* fetches returned), and the export is called only after the answer
\* completion returned the answer it is given; no call other than a fetch
\* is made twice.
C15_OrderedInvocations ==
    /\ \A i, j \in 1..Len(log) : i < j => Rank(log[i].op) <= Rank(log[j].op)
    /\ \A i, j \in 1..Len(log) :
          (i < j /\ log[i].op = log[j].op) => log[i].op = "fetch"
    /\ \A i \in 1..Len(log) :
          /\ log[i].op = "run_query" =>
                /\ i = 2
                /\ log[1].op = "completion:sql"
                /\ log[1].arg # None
                /\ log[i].arg = sql_of_completion(log[1].arg)
          /\ log[i].op = "completion:answer" =>
                \/ log[i - 1].op = "run_query"
                \/ Cardinality(Before(i, {"fetch"})) = NumFetches
          /\ log[i].op = "export" =>
                /\ log[i - 1].op = "completion:answer"
                /\ log[i - 1].arg # None
                /\ answer = strip(log[i - 1].arg)
          /\ log[i].op = "mcp_call" => log[i - 1].op = "export"
    /\ (pc = "call_llm" => (used_rag <=> Count({"fetch"}) = NumFetches))
    /\ (pc = "export" => Count({"completion:answer"}) = 1)

\* C15 witness: a call ran its query, then asked for the answer, then
\* exported it through the export server.
C15_Witness ==
    /\ pc = "returned"
    /\ Len(log) = 5
    /\ log[2].op = "run_query"
    /\ log[3].op = "completion:answer"
    /\ log[4].op = "export"
    /\ log[5].op = "mcp_call"
    /\ result.export_path = DownloadUrl

\* The data query of the call was run and returned its rows: the call went
\* on to the answer completion.
QuerySucceeded ==
    \E i \in 1..(Len(log) - 1) :
        log[i].op = "run_query" /\ log[i + 1].op = "completion:answer"

\* The text of the query that was run.
ExecutedQuery == log[CHOOSE i \in 1..Len(log) : log[i].op = "run_query"].arg

\* C16 (as claimed): an outcome returned with error set carries the trace
\* so far: when a data query was executed before the failure, the outcome
\* reports that query and the number of rows it returned.
C16_FailedOutcomeKeepsTrace ==
    (pc = "returned" /\ result.error # None /\ QuerySucceeded)
        => /\ result.sql = ExecutedQuery
           /\ result.rows_fetched = rows

\* The export server was called and answered with a file.
ExportSucceeded ==
    \E i \in 1..Len(log) : log[i].op = "mcp_call" /\ log[i].arg = <<"success">>

\* The size of the file the export server reported.
ExportedSize == log[CHOOSE i \in 1..Len(log) : log[i].op = "mcp_call"].size

\* C17: in an outcome returned without error, sql and rows_fetched are
\* those of the query that was run and returned (None and 0 when no query
\* was run or the query failed), export_path and export_size are those of
\* the export that succeeded (None and 0 when there was no export or it
\* failed), and filling them in calls no collaborator again: the query,
\* the export and the export server are each called at most once.
C17_DerivedFields ==
    (pc = "returned" /\ result.error = None)
        => /\ IF QuerySucceeded
              THEN /\ result.sql = ExecutedQuery
                   /\ result.rows_fetched = rows
                   /\ ~result.used_rag
              ELSE /\ result.sql = None
                   /\ result.rows_fetched = 0
           /\ IF ExportSucceeded
              THEN /\ result.export_path = DownloadUrl
                   /\ result.export_size = ExportedSize
                   /\ result.export_size > 0
              ELSE /\ result.export_path = None
                   /\ result.export_size = 0
           /\ Count({"run_query"}) <= 1
           /\ Count({"export"}) <= 1
           /\ Count({"mcp_call"}) <= 1

\* C17 witness: the query failed and the export server answered with an
\* error: the outcome has no sql, no rows, no export reference and size 0.
C17_Witness ==
    /\ pc = "returned"
    /\ result.error = None
    /\ QueryFailed
    /\ Count({"mcp_call"}) = 1
    /\ ~ExportSucceeded
    /\ result.sql = None
    /\ result.export_path = None
    /\ result.export_size = 0

\* C17 second witness: the query returned rows and the export gave a file.
C17_WitnessSuccess ==
    /\ pc = "returned"
    /\ QuerySucceeded
    /\ ExportSucceeded
    /\ result.rows_fetched > 0
    /\ result.export_size = MaxFileSize

\* The SQL completion returned a text that generate_sql lets through.
AllowedQueryGenerated ==
    /\ Len(log) >= 1
    /\ log[1].op = "completion:sql"
    /\ log[1].arg # None
    /\ sql_of_completion(log[1].arg) # None

\* The answer completion returned a non-empty text.
FinalTextReturned ==
    \E i \in 1..Len(log) :
        log[i].op = "completion:answer" /\ log[i].arg # None /\ log[i].arg # <<>>

\* The content of the answer completion.
FinalText == log[CHOOSE i \in 1..Len(log) : log[i].op = "completion:answer"].arg

\* The call of Scenario A ended: one allowed query was generated, its run
\* did not fail, and the answer completion returned a non-empty text.
ScenarioA ==
    /\ pc = "returned"
    /\ AllowedQueryGenerated
    /\ ~QueryFailed
    /\ FinalTextReturned

\* C18 (as claimed): in Scenario A the outcome has error unset, an answer
\* equal to the final text, exactly one tool invocation (the query) and
\* rows_fetched equal to the number of rows the query returned.
C18_ScenarioA ==
    ScenarioA
        => /\ result.error = None
           /\ result.answer = FinalText
           /\ NumToolInvocations = 1
           /\ Count({"run_query"}) = 1
           /\ result.rows_fetched = rows

\* C18 (amended): in Scenario A the outcome has error unset, the answer is
\* the final text with its leading and trailing whitespace stripped, the
\* query was run exactly once with the generated text and no broad-context
\* fetch was made, rows_fetched is the number of rows the query returned;
\* the query is the only tool invocation when the question names no export
\* format, and otherwise the export is called once as well.
C18_ScenarioAStripped ==
    ScenarioA
        => /\ result.error = None
           /\ result.answer = strip(FinalText)
           /\ Count({"run_query"}) = 1
           /\ Count({"fetch"}) = 0
           /\ result.sql = sql_of_completion(log[1].arg)
           /\ result.sql = ExecutedQuery
           /\ result.rows_fetched = rows
           /\ ~result.used_rag
           /\ IF detect_export_format(question) = None
              THEN NumToolInvocations = 1
              ELSE Count({"export"}) = 1

\* C18 witness: the query returned MaxRows rows and the final text had
\* surrounding whitespace, which the answer has not.
C18_Witness ==
    /\ ScenarioA
    /\ FinalText = <<" ","4","2","\n">>
    /\ result.answer = <<"4","2">>
    /\ result.rows_fetched = MaxRows
    /\ NumToolInvocations = 1

\* The state of the ask call in progress that no other call can reach.
call_vars ==
    <<pc, question, export_format, sql, rows, used_rag, answer, result, log,
      tool_requests, fault, ncalls>>

ExportTools == {"export_to_excel", "export_to_pdf", "export_to_csv"}

\* C20 (as claimed): an export tool never raises past its own boundary,
\* whatever the argument bag it is called with: once its parameters are
\* bound, every failure inside it comes back as a dict with status error
\* and a message.
C20_ExportToolsNeverRaise ==
    \A i \in 1..Len(tool_results) :
        LET d == tool_results[i]
        IN  (d.tool_name \in ExportTools /\ ~BindFails(d.tool_name, d.tool_args))
            => /\ d.exc = "none"
               /\ d.calls # NoCalls
               /\ d.result.status \in {"success", "error"}
               /\ (d.result.status = "error" => d.result.message \in {E_tool, E_build})

\* The positions of a trace where a query returned, and where the export
\* server answered with a file.
QueryReturns(trace) ==
    {i \in 1..Len(trace) : trace[i].op = "run_query" /\ trace[i].ok}
ExportReturns(trace) ==
    {i \in 1..Len(trace) : trace[i].op = "mcp_call" /\ trace[i].arg = <<"success">>}

Last(positions) == CHOOSE i \in positions : \A j \in positions : j <= i

\* The derived fields as a function of the trace alone: those of the last
\* query that returned and of the last export that gave a file.
summarize(trace) ==
    [sql          |-> IF QueryReturns(trace) = {} THEN None
                      ELSE trace[Last(QueryReturns(trace))].arg,
     rows_fetched |-> IF QueryReturns(trace) = {} THEN 0
                      ELSE trace[Last(QueryReturns(trace))].n,
     export_path  |-> IF ExportReturns(trace) = {} THEN None ELSE DownloadUrl,
     export_size  |-> IF ExportReturns(trace) = {} THEN 0
                      ELSE trace[Last(ExportReturns(trace))].size]

\* The derived fields of the outcome.
Derived(r) ==
    [sql |-> r.sql, rows_fetched |-> r.rows_fetched,
     export_path |-> r.export_path, export_size |-> r.export_size]

\* C21: the derived fields of an outcome returned without error are a
\* function of the calls of that ask call and their results alone: they
\* equal summarize of the call's trace whatever calls were made on the
\* agent before, so computing them again from the same trace gives the
\* same fields.
C21_AggregationIsAFunctionOfTheTrace ==
    (pc = "returned" /\ result.error = None) => Derived(result) = summarize(log)

\* C21 witness: the second call made on the agent returned the rows of its
\* query and the file of its export.
C21_Witness ==
    /\ ncalls = 2
    /\ pc = "returned"
    /\ result.error = None
    /\ QueryReturns(log) # {}
    /\ ExportReturns(log) # {}
    /\ result.rows_fetched = MaxRows
    /\ Derived(result) = summarize(log)

\* C22: in the pipeline sqlhelper.run_query is called only with the text
\* generate_sql returned for the call's SQL completion, a text that passes
\* _is_safe and is not the sentinel; when generate_sql returned None for
\* the completion (sentinel or guard), the next call is a broad-context
\* fetch and no query is run.
C22_OnlyGeneratedSqlRuns ==
    /\ \A i \in 1..Len(log) :
          log[i].op = "run_query" =>
             /\ log[1].op = "completion:sql"
             /\ log[1].arg # None
             /\ log[i].arg = sql_of_completion(log[1].arg)
             /\ log[i].arg # None
             /\ _is_safe(log[i].arg)
             /\ startswith(lower(log[i].arg), w_select)
             /\ upper(log[i].arg) # SENTINEL
    /\ (/\ Len(log) >= 1
        /\ log[1].op = "completion:sql"
        /\ log[1].arg # None
        /\ sql_of_completion(log[1].arg) = None)
          => /\ Count({"run_query"}) = 0
             /\ pc # "run_query"
             /\ Len(log) >= 2 => log[2].op = "fetch"
             /\ Len(log) = 1 => pc = "full_context"

\* C22 witness: the completion returned a fenced query; the text between
\* the fences was run.
C22_Witness ==
    /\ Len(log) >= 2
    /\ log[1].arg = fence_sql \o <<"\n","S","E","L","E","C","T"," ","x","\n">> \o fence
    /\ log[2].op = "run_query"
    /\ log[2].arg = <<"S","E","L","E","C","T"," ","x">>

\* C22 second witness: the guard turned the generated text down and the
\* broad context was fetched.
C22_WitnessRejected ==
    /\ Len(log) >= 2
    /\ log[1].arg = <<"s","e","l","e","c","t"," ","x",";","D","r","o","p"," ","x">>
    /\ log[2].op = "fetch"

\* C23: in one ask call the export is invoked at most once, only when
\* detect_export_format found a format in the question, and only right
\* after the answer completion returned its content, whose stripped text is
\* the answer handed to the export; when no format is found or a step up
\* to the answer fails there is no export, and a call that found a format
\* and got its answer returns after exactly one export.
C23_ExportOnceAfterAnswer ==
    /\ Count({"export"}) <= 1
    /\ \A i \in 1..Len(log) :
          log[i].op = "export" =>
             /\ detect_export_format(question) # None
             /\ export_format = detect_export_format(question)
             /\ i > 1
             /\ log[i - 1].op = "completion:answer"
             /\ log[i - 1].arg # None
             /\ log[i].arg = strip(log[i - 1].arg)
    /\ (pc \notin {"idle", "get_client"} /\ detect_export_format(question) = None)
          => Count({"export"}) = 0
    /\ fault # None => Count({"export"}) = 0
    /\ (pc = "returned" /\ fault = None /\ detect_export_format(question) # None)
          => Count({"export"}) = 1

\* C23 witness: the question named a format, the answer was obtained and
\* handed to the one export of the call.
C23_Witness ==
    /\ pc = "returned"
    /\ export_format = f_csv
    /\ Count({"export"}) = 1
    /\ log[Len(log) - 1].op = "export"
    /\ log[Len(log) - 1].arg = <<"4","2">>
    /\ result.answer = <<"4","2">>

\* C23 second witness: the answer completion failed in a call whose
\* question named a format, and no export was made.
C23_WitnessNoExport ==
    /\ pc = "returned"
    /\ export_format # None
    /\ fault = E_empty
    /\ Count({"export"}) = 0

C26_WitnessRag ==
    /\ pc = "returned"
    /\ result.error = None
    /\ result.used_rag
    /\ result.sql = None


(***************************************************************************)
(* C24..C30: the nomination endpoints                                      *)
(***************************************************************************)
\* The nomination was approved (ApprovedDate is set by approve_nomination
\* alone) or rejected.
Decided(row) == row.ApprovedDate \/ row.Status = "Rejected"

\* The step is a whole request to the email link.
EmailLinkStep == nreq' # nreq /\ last'.endpoint = "email"

\* C24: an email link followed for a nomination that was already approved
\* or rejected, through the API or an earlier link, changes nothing: no
\* status update, no email, no payroll extract.
C24_ProcessedNominationIgnoresEmailLink ==
    [][(EmailLinkStep /\ last'.nid \in DOMAIN noms /\ Decided(noms[last'.nid]))
          => UNCHANGED <<noms, emails, payroll>>]_vars


\* The request handled last ran its approve or reject branch.
Acted == last.stage = "done" /\ last.action \in {"approve", "reject"}

\* The ApproverId of the nomination the last request named (NoUser: no row).
ApproverOfLast == get_nomination_approver(noms, last.nid)

\* C25: a nomination is decided only on behalf of its designated approver.
\* The API endpoint acts only when the effective user's UserId is the
\* nomination's ApproverId, answering 404 for a missing nomination and 403
\* for any other user; the email link acts only when its token verifies
\* and the token's approver_id is the nomination's ApproverId.  A refused
\* request leaves the nominations as they were.
C25_OnlyDesignatedApproverDecides ==
    /\ (last.endpoint = "approve" /\ last.stage = "done") =>
          /\ Acted => (ApproverOfLast # NoUser /\ last.effective = ApproverOfLast)
          /\ ApproverOfLast = NoUser => last.code = 404
          /\ ApproverOfLast \notin {NoUser, last.effective} => last.code = 403
          /\ last.code \in {403, 404} => (~Acted /\ ~last.changed)
    /\ last.endpoint = "email" =>
          /\ Acted => /\ last.token_ok
                      /\ ApproverOfLast # NoUser
                      /\ last.token_approver = ApproverOfLast
          /\ (~last.token_ok \/ last.token_approver # ApproverOfLast)
                => (~Acted /\ ~last.changed)

\* An email link with a valid token of the approver has approved a
\* pending nomination.
C25_Witness ==
    /\ last.endpoint = "email" /\ last.action = "approve" /\ last.changed
    /\ last.status_before = "Pending"

\* The API has turned down a user who is not the approver, and has acted
\* for an administrator impersonating the approver.
C25_WitnessRefused ==
    /\ last.endpoint = "approve" /\ last.code = 403
    /\ ApproverOfLast \notin {NoUser, last.effective}

C25_WitnessImpersonated ==
    /\ last.endpoint = "approve" /\ Acted /\ last.changed
    /\ last.is_impersonating /\ last.actual # ApproverOfLast


\* The payroll extracts generated for nomination id; each is followed by
\* mark_nomination_as_paid.
ExtractsOf(id) == {k \in DOMAIN payroll : payroll[k] = id}

\* C27: for each nomination at most one payroll extract is ever generated
\* and it is marked as paid at most once, whatever approve actions (API
\* endpoint and email links, repeated or concurrent) are taken on it.
C27_AtMostOneExtract ==
    \A id \in DOMAIN noms : Cardinality(ExtractsOf(id)) <= 1

\* The values of Status named by the schema description given to the
\* model (_SCHEMA_CONTEXT of sql_agent.py).
SchemaStatuses == {"Pending", "Approved", "Rejected", "Payed"}

\* C28: the Status of every nomination is at all times one of Pending,
\* Approved, Rejected, Payed.
C28_StatusInSchema ==
    \A id \in DOMAIN noms : noms[id].Status \in SchemaStatuses

\* C29: POST /api/nominations/approve decides a nomination at most once:
\* it acts only on a nomination that is still Pending, so a rejected
\* nomination is never approved or paid later and an approved or paid one
\* is never rejected later.
C29_ApiDecidesPendingOnly ==
    (last.endpoint = "approve" /\ Acted) => last.status_before = "Pending"

\* The request of last has reached its endpoint.
EndpointReached ==
    last.stage = "authenticated" \/ last.endpoint \in {"create", "approve"}

\* The audit entries written for the request of last by the dependency.
StartEntries ==
    {audit[k] : k \in (last.audit_before + 1)..last.audit_mark}

\* The request of last reaches its endpoint with an effective user other
\* than the authenticated one only if the latter is an administrator, the
\* impersonated user exists and 'impersonation_started' was logged first.
ImpersonationIsAdminOnly ==
    (EndpointReached /\ last.effective # last.actual) =>
        /\ last.admin
        /\ last.effective \in Users
        /\ AuditEntry(last.actual, last.effective, "impersonation_started")
              \in StartEntries

\* The request of last was refused with 403 and did nothing.
Refused403 ==
    /\ last.code = 403 /\ last.stage = "done" /\ last.endpoint = "none"
    /\ ~last.changed /\ ~last.emailed /\ ~last.extracted
    /\ last.audit_mark = last.audit_before /\ Len(audit) = last.audit_mark

C30_WitnessRefused ==
    last.header_given /\ ~last.admin /\ last.actual # NoUser /\ last.code = 403

====
